---- MODULE Spec2Model ----
(***************************************************************************)
(* Model of src/main.py: analyze_trading_signals, the time-gap             *)
(* segmentation of the buy signals of a trade table.                       *)
(*                                                                         *)
(* Encoding of the values the function handles:                            *)
(*   - a signal label is a sequence of syllables; "mae","su" stands for    *)
(*     the pattern the code looks for, "chu","ga","mae","su" for an add-on *)
(*     buy and "mae","do" for a sell;                                      *)
(*   - a cell of the time column is [dtype, v]: dtype "object" with        *)
(*     v = <<H, M, S>> (a parseable text) or v = <<>> (a text that         *)
(*     pandas cannot parse); dtype "datetime64" with v = <<seconds>>       *)
(*     once pd.to_datetime has converted the column;                       *)
(*   - a cell of the price or amount column is [num, v]: num = FALSE is a  *)
(*     text that float() refuses;                                          *)
(*   - a float is an IEEE double [kind, neg, m, e] with the value          *)
(*     (-1)^neg * m * 2^e, the mantissa m written in digits of base 2^15,  *)
(*     the lowest first, every operation rounded to 53 binary digits, ties *)
(*     to even; kind tells the finite values from inf and nan;             *)
(*   - None is [none |-> TRUE, ...].                                       *)
(* sort_values sorts with numpy's quicksort, which is not stable: the      *)
(* order it gives to rows of equal time depends on the numpy build and on  *)
(* the column, not on the program. indexer is the order the build at hand  *)
(* gives for the time column of df; any order that sorts the column is     *)
(* possible, and it is the same whenever the same column is sorted again.  *)
(* The builtin sum adds floats one after the other up to Python 3.11 and   *)
(* with Neumaier's compensation from Python 3.12 on; the repository names  *)
(* no version. compensated tells which of the two the interpreter at hand  *)
(* does.                                                                   *)
(* All timestamps of the model are on one day, the date part of the        *)
(* formatted time is left out. Leverage is an integer.                     *)
(***************************************************************************)
EXTENDS Integers, Sequences, FiniteSets, Bags, TLC

VARIABLES df, leverage, indexer, compensated, pc, entry_signals, pos,
          current_group_start, current_group_entries, results, ret, errors,
          sidebar, returned

vars == <<df, leverage, indexer, compensated, pc, entry_signals, pos,
          current_group_start, current_group_entries, results, ret, errors,
          sidebar, returned>>

\* ---------------------------------------------------------------- bounds
MaxRows == 3
MaxRuns == 2

\* ------------------------------------------------------ program constants
GapLimit == 300

Pattern == <<"mae", "su">>

\* ---------------------------------------------------------------- inputs
Buy == <<"mae", "su">>
AddBuy == <<"chu", "ga", "mae", "su">>
Sell == <<"mae", "do">>

Text(h, m, s) == [dtype |-> "object", v |-> <<h, m, s>>]
BadText == [dtype |-> "object", v |-> <<>>]
Num(x) == [num |-> TRUE, v |-> x]
BadNum == [num |-> FALSE, v |-> 0]

Row(t, sd, p, a) == [time |-> t, side |-> sd, price |-> p, amount |-> a]

\* Entry rows at T, T+400s, T+700s and T+1001s (gaps of 400, 300 and 301
\* seconds, and more between rows that are not neighbours), one of them an
\* add-on buy; a sell; and rows with one unreadable cell.
RowDomain ==
    { Row(Text(0, 0, 0), AddBuy, Num(150), Num(2)),
      Row(Text(0, 6, 40), Buy, Num(100), Num(1)),
      Row(Text(0, 11, 40), Buy, Num(100), Num(1)),
      Row(Text(0, 16, 41), Buy, Num(100), Num(1)),
      Row(Text(0, 1, 40), Sell, Num(100), Num(1)),
      Row(BadText, Sell, Num(100), Num(1)),
      Row(Text(0, 3, 20), Buy, BadNum, Num(1)),
      Row(Text(0, 15, 0), AddBuy, Num(100), BadNum) }

Leverages == {-10, 0, 10}

Tables == UNION { [1..n -> RowDomain] : n \in 0..MaxRows }

\* Readable entry rows only, at T, T+120s and T+400s (gaps of 120, 280 and
\* 400 seconds), and a leverage that does not divide the amounts: the
\* margins are then no exact doubles and the sums are rounded.
MarginRows ==
    { Row(Text(0, 0, 0), Buy, Num(100), Num(1)),
      Row(Text(0, 2, 0), Buy, Num(100), Num(1)),
      Row(Text(0, 6, 40), Buy, Num(100), Num(1)),
      Row(Text(0, 2, 0), AddBuy, Num(75), Num(2)) }

MarginLeverages == Leverages \cup {3}

MarginTables == UNION { [1..n -> MarginRows] : n \in 0..MaxRows }

\* ------------------------------------------------------------ float model
Abs(x) == IF x < 0 THEN -x ELSE x

\* A natural number of any size is the sequence of its digits in base 2^15,
\* the lowest first and the highest not 0; <<>> is 0. The sums and products
\* of two digits stay below 2^31.
LimbBits == 15
Base == 32768

\* the digits of an integer 0 <= n < 2^31
RECURSIVE Limbs(_)
Limbs(n) == IF n = 0 THEN <<>> ELSE <<n % Base>> \o Limbs(n \div Base)

Zeros(n) == IF n <= 0 THEN <<>> ELSE [i \in 1..n |-> 0]

\* a without the zeros above its highest digit that is not 0
Trim(a) ==
    IF a = <<>> \/ a[Len(a)] # 0 THEN a
    ELSE IF \A i \in 1..Len(a) : a[i] = 0 THEN <<>>
    ELSE SubSeq(a, 1, CHOOSE i \in 1..Len(a) :
                          a[i] # 0 /\ \A j \in (i + 1)..Len(a) : a[j] = 0)

DigitAt(a, i) == IF i >= 1 /\ i <= Len(a) THEN a[i] ELSE 0

\* the number of binary digits of a, and of the integer 1 <= d < 2^31
Width(d) == CHOOSE k \in 1..31 : d \div 2^(k - 1) = 1
BitLen(a) == IF a = <<>> THEN 0 ELSE LimbBits * (Len(a) - 1) + Width(a[Len(a)])

\* the binary digit of a at place i, the lowest place being 1
BitAt(a, i) ==
    IF i < 1 THEN 0
    ELSE (DigitAt(a, (i - 1) \div LimbBits + 1) \div 2^((i - 1) % LimbBits)) % 2

\* a * d + carry for an integer 0 <= d < 2^15, from digit i of a on
RECURSIVE MulFrom(_, _, _, _)
MulFrom(a, d, i, carry) ==
    IF i > Len(a) THEN Limbs(carry)
    ELSE LET v == a[i] * d + carry
         IN <<v % Base>> \o MulFrom(a, d, i + 1, v \div Base)

MulSmall(a, d) == IF d = 0 THEN <<>> ELSE MulFrom(a, d, 1, 0)

\* the digits i, i-1, .., 1 of a, below the remainder r of the higher
\* ones, divided by an integer 1 <= d <= 2^15: the quotient's digits and the
\* remainder (an integer)
RECURSIVE DivFrom(_, _, _, _)
DivFrom(a, d, i, r) ==
    IF i = 0 THEN [q |-> <<>>, r |-> r]
    ELSE LET v == r * Base + a[i]
             rest == DivFrom(a, d, i - 1, v % d)
         IN [q |-> Append(rest.q, v \div d), r |-> rest.r]

DivSmall(a, d) ==
    LET x == DivFrom(a, d, Len(a), 0) IN [q |-> Trim(x.q), r |-> x.r]

\* a * 2^k and a \div 2^k
ShiftL(a, k) ==
    IF a = <<>> \/ k <= 0 THEN a
    ELSE Zeros(k \div LimbBits) \o MulSmall(a, 2^(k % LimbBits))

ShiftR(a, k) ==
    IF k <= 0 THEN a
    ELSE IF k \div LimbBits >= Len(a) THEN <<>>
    ELSE DivSmall(SubSeq(a, k \div LimbBits + 1, Len(a)), 2^(k % LimbBits)).q

\* a % 2^k
Low(a, k) ==
    IF k <= 0 THEN <<>>
    ELSE IF k \div LimbBits >= Len(a) THEN a
    ELSE Trim(SubSeq(a, 1, k \div LimbBits)
              \o <<a[k \div LimbBits + 1] % 2^(k % LimbBits)>>)

\* a + b + carry, from digit i on
RECURSIVE AddFrom(_, _, _, _)
AddFrom(a, b, i, carry) ==
    IF i > Len(a) /\ i > Len(b) THEN Limbs(carry)
    ELSE LET v == DigitAt(a, i) + DigitAt(b, i) + carry
         IN <<v % Base>> \o AddFrom(a, b, i + 1, v \div Base)

BAdd(a, b) == AddFrom(a, b, 1, 0)

\* a - b - borrow for a >= b, from digit i on
RECURSIVE SubFrom(_, _, _, _)
SubFrom(a, b, i, borrow) ==
    IF i > Len(a) THEN <<>>
    ELSE LET v == a[i] - DigitAt(b, i) - borrow
         IN <<v % Base>> \o SubFrom(a, b, i + 1, IF v < 0 THEN 1 ELSE 0)

BSub(a, b) == Trim(SubFrom(a, b, 1, 0))

\* -1, 0 or 1 as a < b, a = b or a > b
BCmp(a, b) ==
    IF Len(a) > Len(b) THEN 1
    ELSE IF Len(a) < Len(b) THEN -1
    ELSE IF a = b THEN 0
    ELSE LET top == CHOOSE i \in 1..Len(a) :
                        /\ a[i] # b[i]
                        /\ \A k \in (i + 1)..Len(a) : a[k] = b[k]
         IN IF a[top] > b[top] THEN 1 ELSE -1

\* a * b, from digit j of b on
RECURSIVE MulDigits(_, _, _)
MulDigits(a, b, j) ==
    IF j > Len(b) THEN <<>>
    ELSE BAdd(MulSmall(a, b[j]), ShiftL(MulDigits(a, b, j + 1), LimbBits))

BMul(a, b) == IF a = <<>> \/ b = <<>> THEN <<>> ELSE MulDigits(a, b, 1)

\* quotient q and remainder r of a by b # 0: digit by digit when b has one
\* digit; otherwise a with many more binary digits than b is divided by
\* halves, the higher half first
RECURSIVE BDivMod(_, _)
BDivMod(a, b) ==
    IF Len(b) = 1
    THEN LET x == DivSmall(a, b[1]) IN [q |-> x.q, r |-> Limbs(x.r)]
    ELSE IF BCmp(a, b) < 0 THEN [q |-> <<>>, r |-> a]
    ELSE IF BitLen(a) <= BitLen(b) + 1
    THEN LET r1 == BSub(a, b)
         IN IF BCmp(r1, b) < 0 THEN [q |-> <<1>>, r |-> r1]
            ELSE LET r2 == BSub(r1, b)
                 IN IF BCmp(r2, b) < 0 THEN [q |-> <<2>>, r |-> r2]
                    ELSE [q |-> <<3>>, r |-> BSub(r2, b)]
    ELSE LET h == (BitLen(a) - BitLen(b) + 1) \div 2
             high == BDivMod(ShiftR(a, h), b)
             low == BDivMod(BAdd(ShiftL(high.r, h), Low(a, h)), b)
         IN [q |-> BAdd(ShiftL(high.q, h), low.q), r |-> low.r]

\* the number of binary zeros below the lowest 1 of a # 0
LowZeros(a) ==
    LET i == CHOOSE i \in 1..Len(a) :
                 a[i] # 0 /\ \A j \in 1..(i - 1) : a[j] = 0
        k == CHOOSE k \in 0..(LimbBits - 1) :
                 a[i] % 2^(k + 1) # 0 /\ a[i] % 2^k = 0
    IN LimbBits * (i - 1) + k

\* An IEEE double is [kind, neg, m, e]: kind "finite" with the value
\* (-1)^neg * m * 2^e, m an odd natural number of at most MantissaBits
\* binary digits (m = <<>>, e = 0 for the two zeros); kind "inf"; kind
\* "nan". Overflow to inf and subnormal results are outside the exponents
\* the model meets.
MantissaBits == 53

Finite(neg, m, e) ==
    IF m = <<>> THEN [kind |-> "finite", neg |-> neg, m |-> <<>>, e |-> 0]
    ELSE LET z == LowZeros(m)
         IN [kind |-> "finite", neg |-> neg, m |-> ShiftR(m, z), e |-> e + z]

Inf(neg) == [kind |-> "inf", neg |-> neg, m |-> <<>>, e |-> 0]
NaN == [kind |-> "nan", neg |-> FALSE, m |-> <<>>, e |-> 0]
Zero == Finite(FALSE, <<>>, 0)

IsNaN(x) == x.kind = "nan"
IsZero(x) == x.kind = "finite" /\ x.m = <<>>

\* the double nearest to (m + f) * 2^e, 0 <= f < 1, f > 0 iff sticky, ties
\* to the even mantissa; m has more than MantissaBits digits when sticky
Round(neg, m, e, sticky) ==
    IF BitLen(m) <= MantissaBits THEN Finite(neg, m, e)
    ELSE LET k == BitLen(m) - MantissaBits
             kept == ShiftR(m, k)
             below == sticky \/ Low(m, k - 1) # <<>>
             up == BitAt(m, k) = 1 /\ (below \/ BitAt(kept, 1) = 1)
         IN Finite(neg, IF up THEN BAdd(kept, <<1>>) ELSE kept, e + k)

\* float(n) for an integer n
FromInt(n) == Finite(n < 0, Limbs(Abs(n)), 0)

\* x * y
FloatMul(x, y) ==
    IF IsNaN(x) \/ IsNaN(y) THEN NaN
    ELSE IF x.kind = "inf" \/ y.kind = "inf"
    THEN (IF IsZero(x) \/ IsZero(y) THEN NaN ELSE Inf(x.neg # y.neg))
    ELSE Round(x.neg # y.neg, BMul(x.m, y.m), x.e + y.e, FALSE)

\* x / y on a float column: a zero divisor gives inf, -inf or nan, no
\* exception
FloatDiv(x, y) ==
    IF IsNaN(x) \/ IsNaN(y) THEN NaN
    ELSE IF x.kind = "inf"
    THEN (IF y.kind = "inf" THEN NaN ELSE Inf(x.neg # y.neg))
    ELSE IF y.kind = "inf" THEN Finite(x.neg # y.neg, <<>>, 0)
    ELSE IF IsZero(y)
    THEN (IF IsZero(x) THEN NaN ELSE Inf(x.neg # y.neg))
    ELSE IF IsZero(x) THEN Finite(x.neg # y.neg, <<>>, 0)
    ELSE LET whole == BDivMod(x.m, y.m)
         IN IF whole.r = <<>>
            THEN Round(x.neg # y.neg, whole.q, x.e - y.e, FALSE)
            ELSE LET k == IF MantissaBits + 2 + BitLen(y.m) > BitLen(x.m)
                          THEN MantissaBits + 2 + BitLen(y.m) - BitLen(x.m)
                          ELSE 0
                     d == BDivMod(ShiftL(x.m, k), y.m)
                 IN Round(x.neg # y.neg, d.q, x.e - y.e - k, d.r # <<>>)

\* -1, 0 or 1 as |x| < |y|, |x| = |y| or |x| > |y|, x and y finite
MagCmp(x, y) ==
    LET lo == IF x.e < y.e THEN x.e ELSE y.e
    IN BCmp(ShiftL(x.m, x.e - lo), ShiftL(y.m, y.e - lo))

\* x + y
FloatAdd(x, y) ==
    IF IsNaN(x) \/ IsNaN(y) THEN NaN
    ELSE IF x.kind = "inf"
    THEN (IF y.kind = "inf" /\ x.neg # y.neg THEN NaN ELSE x)
    ELSE IF y.kind = "inf" THEN y
    ELSE IF IsZero(x) /\ IsZero(y) THEN Finite(x.neg /\ y.neg, <<>>, 0)
    ELSE IF IsZero(x) THEN y
    ELSE IF IsZero(y) THEN x
    ELSE LET lo == IF x.e < y.e THEN x.e ELSE y.e
             a == ShiftL(x.m, x.e - lo)
             b == ShiftL(y.m, y.e - lo)
             c == BCmp(a, b)
         IN IF x.neg = y.neg THEN Round(x.neg, BAdd(a, b), lo, FALSE)
            ELSE IF c = 0 THEN Zero
            ELSE IF c > 0 THEN Round(x.neg, BSub(a, b), lo, FALSE)
            ELSE Round(y.neg, BSub(b, a), lo, FALSE)

\* -x and x - y
FloatNeg(x) == IF IsNaN(x) THEN x ELSE [x EXCEPT !.neg = ~x.neg]
FloatSub(x, y) == FloatAdd(x, FloatNeg(y))

\* fabs(x) >= fabs(y), false when one of them is nan
FabsGE(x, y) ==
    IF IsNaN(x) \/ IsNaN(y) THEN FALSE
    ELSE IF x.kind = "inf" THEN TRUE
    ELSE IF y.kind = "inf" THEN FALSE
    ELSE MagCmp(x, y) >= 0

\* x <= y, neither of them nan
FloatLE(x, y) ==
    IF x.kind = "inf" THEN x.neg \/ (y.kind = "inf" /\ ~y.neg)
    ELSE IF y.kind = "inf" THEN ~y.neg
    ELSE IF IsZero(x) THEN IsZero(y) \/ ~y.neg
    ELSE IF IsZero(y) THEN x.neg
    ELSE IF x.neg # y.neg THEN x.neg
    ELSE IF x.neg THEN MagCmp(x, y) >= 0
    ELSE MagCmp(x, y) <= 0

\* the decimal digits of a natural number, the highest first
RECURSIVE Digits(_)
Digits(a) ==
    IF a = <<>> THEN <<>>
    ELSE LET d == DivSmall(a, 10) IN Append(Digits(d.q), d.r)

\* f"{x:.2f}": the sign and the decimal digits of |x| in hundredths (the
\* last two digits follow the point, "0.05" is <<0, 0, 5>>), the binary
\* value of x rounded to the nearest hundredth, ties to the even one
Format2f(x) ==
    IF x.kind # "finite"
    THEN [special |-> x.kind, neg |-> x.neg, digits |-> <<>>]
    ELSE LET n == MulSmall(x.m, 100)
             k == -x.e
             q == ShiftR(n, k)
             up == k >= 1 /\ BitAt(n, k) = 1
                     /\ (Low(n, k - 1) # <<>> \/ BitAt(q, 1) = 1)
             cents == IF k <= 0 THEN ShiftL(n, x.e)
                      ELSE IF up THEN BAdd(q, <<1>>) ELSE q
             ds == Digits(cents)
         IN [special |-> "", neg |-> x.neg,
             digits |-> IF Len(ds) >= 3 THEN ds
                        ELSE [i \in 1..(3 - Len(ds)) |-> 0] \o ds]

\* --------------------------------------------------------- pure helpers
None == [none |-> TRUE, v |-> 0]
Some(x) == [none |-> FALSE, v |-> x]

\* pd.to_datetime on one cell: a text <<H, M, S>> becomes a timestamp (in
\* seconds of the day), a timestamp stays what it is
ToDatetime(cell) ==
    IF cell.dtype = "datetime64" THEN cell
    ELSE [dtype |-> "datetime64",
          v |-> <<3600 * cell.v[1] + 60 * cell.v[2] + cell.v[3]>>]

\* pd.to_datetime raises when a text of the column cannot be parsed
ToDatetimeRaises(table) ==
    \E k \in 1..Len(table) :
        table[k].time.dtype = "object" /\ table[k].time.v = <<>>

\* time.strftime('%Y-%m-%d %H:%M:%S'), the date part left out
Strftime(ts) == <<ts \div 3600, (ts % 3600) \div 60, ts % 60>>

\* (current_time - prev_time).total_seconds()
TotalSeconds(current_time, prev_time) == current_time - prev_time

\* the time column of a table, in seconds of the day
TimeColumn(table) == [k \in 1..Len(table) |-> ToDatetime(table[k].time).v[1]]

\* column.argsort(kind='quicksort'): the orders numpy may return, every
\* permutation of the positions along which the column does not decrease
Argsort(column) ==
    { p \in [1..Len(column) -> 1..Len(column)] :
        /\ \A i, j \in 1..Len(column) : i # j => p[i] # p[j]
        /\ \A i \in 1..(Len(column) - 1) : column[p[i]] <= column[p[i + 1]] }

\* the order the build gives for the time column of a table that can be
\* parsed (one that cannot is never sorted)
Indexers(table) ==
    IF ToDatetimeRaises(table) THEN { [k \in 1..Len(table) |-> k] }
    ELSE Argsort(TimeColumn(table))

\* (mutant) the table is taken in the order it is supplied
NoSort(table, idx) == table

\* df.sort_values(time_col, ascending=True): the rows taken in the order
\* argsort returned
SortValues(table, idx) == [k \in 1..Len(table) |-> table[idx[k]]]

\* str.contains('매수', case=False) on one label
Contains(label, pat) ==
    \E k \in 0..(Len(label) - Len(pat)) :
        SubSeq(label, k + 1, k + Len(pat)) = pat

\* df[df[side_col].str.contains(...)]
FilterEntries(table) == SelectSeq(table, LAMBDA r : Contains(r.side, Pattern))

\* (mutant) an unreadable number is taken as nan instead of raising
NeverRaises(rows) == FALSE

\* (mutant) the emptiness test is left out
NeverEmpty(frame) == FALSE

\* entry_signals.empty
Empty(frame) == frame = <<>>

\* .astype(float) on one cell
AsFloat(cell) == IF cell.num THEN FromInt(cell.v) ELSE NaN

\* .astype(float) raises when a price or an amount of the rows is no number
AsTypeFloatRaises(rows) ==
    \E k \in 1..Len(rows) : ~rows[k].price.num \/ ~rows[k].amount.num

\* (mutant) the division by the leverage is forgotten
RowMarginNoLeverage(amount, price, lev) ==
    FloatMul(AsFloat(amount), AsFloat(price))

\* amount * price / leverage
RowMargin(amount, price, lev) ==
    FloatDiv(FloatMul(AsFloat(amount), AsFloat(price)), FromInt(lev))

WithMargin(rows, lev) ==
    [k \in 1..Len(rows) |->
        [time |-> rows[k].time, side |-> rows[k].side, price |-> rows[k].price,
         amount |-> rows[k].amount,
         margin |-> RowMargin(rows[k].amount, rows[k].price, lev)]]

\* sum() up to Python 3.11: 0 + x1 + x2 + ..., every addition rounded
RECURSIVE PlainSum(_, _)
PlainSum(entries, k) ==
    IF k = 0 THEN Zero
    ELSE FloatAdd(PlainSum(entries, k - 1), entries[k].margin)

\* one step of Neumaier's summation: x is added to the running sum f, giving
\* t, and what that addition rounded away is added to the compensation c;
\* it is (f - t) + x when |f| >= |x| and (x - t) + f otherwise
Compensate(f, c, x, t) ==
    [f |-> t,
     c |-> FloatAdd(c, FloatAdd(FloatSub(IF FabsGE(f, x) THEN f ELSE x, t),
                                IF FabsGE(f, x) THEN x ELSE f))]

NeumaierStep(s, x) == Compensate(s.f, s.c, x, FloatAdd(s.f, x))

\* sum() from Python 3.12 on, after k >= 1 floats: the running sum f and the
\* compensation c, which gathers what the additions to f rounded away
\* (0 + x1 is added as it was before, the compensation starts at 0.0)
RECURSIVE NeumaierSum(_, _)
NeumaierSum(entries, k) ==
    IF k = 1 THEN [f |-> FloatAdd(Zero, entries[1].margin), c |-> Zero]
    ELSE NeumaierStep(NeumaierSum(entries, k - 1), entries[k].margin)

\* the compensation is added at the end when it is finite and not zero
AddCompensation(s) ==
    IF s.c.kind = "finite" /\ ~IsZero(s.c) THEN FloatAdd(s.f, s.c) ELSE s.f

CompensatedSum(entries) == AddCompensation(NeumaierSum(entries, Len(entries)))

\* sum(margin for _, margin, _ in current_group_entries)
SumMargins(entries, comp) ==
    IF comp /\ entries # <<>> THEN CompensatedSum(entries)
    ELSE PlainSum(entries, Len(entries))

\* the record appended to results for a group
GroupRecord(start, entries) ==
    [start_time |-> start,
     end_time |-> entries[Len(entries)].time,
     total_margin |-> SumMargins(entries, compensated),
     entry_count |-> Len(entries),
     entry_times |-> [k \in 1..Len(entries) |-> Strftime(entries[k].time)],
     entry_amounts |-> [k \in 1..Len(entries) |-> Format2f(entries[k].margin)],
     signal_types |-> [k \in 1..Len(entries) |-> entries[k].signal]]

\* (mutant) the boundary is exclusive
SameGroupStrict(time_diff) == time_diff < GapLimit

\* if time_diff <= 300
SameGroup(time_diff) == time_diff <= GapLimit

\* (mutant) the list outlives the call, as a module-level list would
KeepResults(old) == old

\* results = []
NewResults(old) == <<>>

\* (mutant) the record of a closed group replaces the last stored one
ResultsOverwrite(list, episode) ==
    IF list = <<>> THEN <<episode>>
    ELSE [list EXCEPT ![Len(list)] = episode]

\* results.append({...})
ResultsAppend(list, episode) == Append(list, episode)

\* (mutant) the group still open at the end of the input is dropped
LastGroupDropped(list, start, entries) == list

\* the tail of the function: the last open group is stored when it is not empty
LastGroup(list, start, entries) ==
    IF entries # <<>> THEN ResultsAppend(list, GroupRecord(start, entries))
    ELSE list

\* results_df['필요증거금합계'].max(), nan skipped
RECURSIVE SeriesMax(_, _)
SeriesMax(list, k) ==
    IF k = 0 THEN NaN
    ELSE LET rest == SeriesMax(list, k - 1)
             x == list[k].total_margin
         IN IF IsNaN(x) THEN rest
            ELSE IF IsNaN(rest) THEN x
            ELSE IF FloatLE(rest, x) THEN x ELSE rest

RECURSIVE TotalEntries(_, _)
TotalEntries(list, k) ==
    IF k = 0 THEN 0 ELSE TotalEntries(list, k - 1) + Len(list[k].entry_times)

\* Lines 130-139. On a frame without rows, which has no columns either,
\* the subscript of line 130 raises KeyError; otherwise the four lines
\* written to the sidebar.
Statistics(list) ==
    IF list = <<>>
    THEN [raised |-> TRUE, total_entries |-> 0, groups |-> 0,
          avg_entries_per_group |-> Format2f(Zero),
          max_margin |-> Format2f(Zero)]
    ELSE [raised |-> FALSE,
          total_entries |-> TotalEntries(list, Len(list)),
          groups |-> Len(list),
          avg_entries_per_group |->
              Format2f(FloatDiv(FromInt(TotalEntries(list, Len(list))),
                                FromInt(Len(list)))),
          max_margin |-> Format2f(SeriesMax(list, Len(list)))]

\* the sidebar before any analysis has written to it
NoStatistics ==
    [raised |-> FALSE, total_entries |-> 0, groups |-> 0,
     avg_entries_per_group |-> Format2f(Zero), max_margin |-> Format2f(Zero)]

\* return None, None (line 67 and line 146)
EmptyReturn == [none |-> TRUE, results_df |-> <<>>, entry_signals |-> <<>>]
ErrorReturn == [none |-> TRUE, results_df |-> <<>>, entry_signals |-> <<>>]
ReturnFrames(list, entries) ==
    [none |-> FALSE, results_df |-> list, entry_signals |-> entries]

\* ------------------------------------------------------------ the state
\* df is the caller's table (its time column is converted in place by a
\* successful pd.to_datetime), leverage the configured multiplier. pc is
\* the position of the call: "idle" before the first call, "loop" inside
\* the for loop, "return67", "return141" or "return146" after the return
\* statement of that line. returned holds the value of every finished call.
Init ==
    /\ df \in Tables
    /\ leverage \in Leverages
    /\ indexer \in Indexers(df)
    /\ compensated \in BOOLEAN
    /\ pc = "idle"
    /\ entry_signals = <<>>
    /\ pos = 1
    /\ current_group_start = None
    /\ current_group_entries = <<>>
    /\ results = <<>>
    /\ ret = EmptyReturn
    /\ errors = <<>>
    /\ sidebar = NoStatistics
    /\ returned = <<>>

\* the except branch: two st.error messages, return None, None
Except(msgs) == msgs \o <<"analysis_error", "error_detail">>

\* Lines 53-78: the call up to the loop. The time column is parsed (and
\* stored back into df), the table sorted and filtered, the margins computed.
Call ==
    /\ pc \in {"idle", "return67", "return141", "return146"}
    /\ Len(returned) < MaxRuns
    /\ current_group_start' = None
    /\ current_group_entries' = <<>>
    /\ pos' = 1
    /\ UNCHANGED <<leverage, indexer, compensated, sidebar>>
    /\ IF ToDatetimeRaises(df)
       THEN /\ errors' = Except(errors)
            /\ ret' = ErrorReturn
            /\ returned' = Append(returned, ErrorReturn)
            /\ pc' = "return146"
            /\ UNCHANGED <<df, entry_signals, results>>
       ELSE LET parsed == [k \in 1..Len(df) |->
                              [df[k] EXCEPT !.time = ToDatetime(df[k].time)]]
                entries == FilterEntries(SortValues(parsed, indexer))
            IN /\ df' = parsed
               /\ IF Empty(entries)
                  THEN /\ errors' = Append(errors, "no_buy_signal")
                       /\ ret' = EmptyReturn
                       /\ returned' = Append(returned, EmptyReturn)
                       /\ pc' = "return67"
                       /\ entry_signals' = entries
                       /\ UNCHANGED results
                  ELSE IF AsTypeFloatRaises(entries)
                  THEN /\ errors' = Except(errors)
                       /\ ret' = ErrorReturn
                       /\ returned' = Append(returned, ErrorReturn)
                       /\ pc' = "return146"
                       /\ entry_signals' = entries
                       /\ UNCHANGED results
                  ELSE /\ entry_signals' = WithMargin(entries, leverage)
                       /\ results' = NewResults(results)
                       /\ pc' = "loop"
                       /\ UNCHANGED <<errors, ret, returned>>

\* Lines 81-112: one iteration of the for loop over entry_signals
LoopStep ==
    /\ pc = "loop"
    /\ pos <= Len(entry_signals)
    /\ LET row == entry_signals[pos]
           current_time == row.time.v[1]
           entry == [time |-> current_time, margin |-> row.margin,
                     signal |-> row.side]
       IN IF current_group_start.none
          THEN /\ current_group_start' = Some(current_time)
               /\ current_group_entries' = <<entry>>
               /\ UNCHANGED results
          ELSE LET prev_time == current_group_entries[Len(current_group_entries)].time
                   time_diff == TotalSeconds(current_time, prev_time)
               IN IF SameGroup(time_diff)
                  THEN /\ current_group_entries' = Append(current_group_entries, entry)
                       /\ UNCHANGED <<current_group_start, results>>
                  ELSE /\ results' = ResultsAppend(results,
                                        GroupRecord(current_group_start.v,
                                                    current_group_entries))
                       /\ current_group_start' = Some(current_time)
                       /\ current_group_entries' = <<entry>>
    /\ pos' = pos + 1
    /\ UNCHANGED <<df, leverage, indexer, compensated, pc,
                 entry_signals, ret, errors, sidebar, returned>>

\* Lines 127-146, given what lines 130-132 computed: the statistics are
\* written to the sidebar and the two frames are returned; when the
\* statistics raised, the except branch returns None, None
WriteAndReturn(stats) ==
    /\ IF stats.raised
       THEN /\ errors' = Except(errors)
            /\ ret' = ErrorReturn
            /\ pc' = "return146"
            /\ UNCHANGED sidebar
       ELSE /\ sidebar' = stats
            /\ ret' = ReturnFrames(results', entry_signals)
            /\ pc' = "return141"
            /\ UNCHANGED errors
    /\ returned' = Append(returned, ret')

\* Lines 114-146: the last group is stored, then the statistics and the
\* return
Finish ==
    /\ pc = "loop"
    /\ pos > Len(entry_signals)
    /\ results' = LastGroup(results, current_group_start.v,
                            current_group_entries)
    /\ WriteAndReturn(Statistics(results'))
    /\ UNCHANGED <<df, leverage, indexer, compensated, entry_signals, pos,
                   current_group_start, current_group_entries>>

Next == Call \/ LoopStep \/ Finish

Spec == Init /\ [][Next]_vars

\* the same program on the tables and leverages chosen for the margins
InitMargin ==
    /\ df \in MarginTables
    /\ leverage \in MarginLeverages
    /\ indexer \in Indexers(df)
    /\ compensated \in BOOLEAN
    /\ pc = "idle"
    /\ entry_signals = <<>>
    /\ pos = 1
    /\ current_group_start = None
    /\ current_group_entries = <<>>
    /\ results = <<>>
    /\ ret = EmptyReturn
    /\ errors = <<>>
    /\ sidebar = NoStatistics
    /\ returned = <<>>

SpecMargin == InitMargin /\ [][Next]_vars

\* ============================================================ properties
Returned == pc \in {"return67", "return141", "return146"}

\* the positions of df whose label matches the pattern
EntryPositions == { k \in 1..Len(df) : Contains(df[k].side, Pattern) }

RECURSIVE BagOfSeq(_, _)
BagOfSeq(seq, k) ==
    IF k = 0 THEN EmptyBag ELSE BagOfSeq(seq, k - 1) (+) SetToBag({seq[k]})

\* what an episode lists for each of its rows: time, amount, label
EpisodeEntries(ep) ==
    [k \in 1..ep.entry_count |->
        <<ep.entry_times[k], ep.entry_amounts[k], ep.signal_types[k]>>]

RECURSIVE AllEpisodeEntries(_, _)
AllEpisodeEntries(eps, j) ==
    IF j = 0 THEN <<>>
    ELSE AllEpisodeEntries(eps, j - 1) \o EpisodeEntries(eps[j])

\* the same three values, computed from the rows of the table
RECURSIVE InputEntries(_)
InputEntries(k) ==
    IF k = 0 THEN <<>>
    ELSE IF k \in EntryPositions
    THEN Append(InputEntries(k - 1),
                <<Strftime(ToDatetime(df[k].time).v[1]),
                  Format2f(RowMargin(df[k].amount, df[k].price, leverage)),
                  df[k].side>>)
    ELSE InputEntries(k - 1)

RECURSIVE CountBefore(_, _)
CountBefore(eps, j) ==
    IF j <= 1 THEN 0 ELSE CountBefore(eps, j - 1) + eps[j - 1].entry_count

\* the episode that holds the i-th entry row in time order
EpisodeOf(eps, i) ==
    CHOOSE j \in 1..Len(eps) :
        CountBefore(eps, j) < i /\ i <= CountBefore(eps, j) + eps[j].entry_count

Gap(es, i) == es[i + 1].time.v[1] - es[i].time.v[1]

\* C1: when a call returns episodes, the rows the episodes list are, as a
\* multiset, exactly the rows of the table whose label matches the pattern
\* (none dropped, none duplicated), every episode lists as many rows as its
\* entry count, and the entry counts add up to the number of entry rows.
PartitionOfEntryRows ==
    pc = "return141" =>
        LET eps == ret.results_df
            listed == AllEpisodeEntries(eps, Len(eps))
        IN /\ \A j \in 1..Len(eps) :
                /\ eps[j].entry_count >= 1
                /\ Len(eps[j].entry_times) = eps[j].entry_count
                /\ Len(eps[j].entry_amounts) = eps[j].entry_count
                /\ Len(eps[j].signal_types) = eps[j].entry_count
           /\ BagOfSeq(listed, Len(listed))
                = BagOfSeq(InputEntries(Len(df)), Len(InputEntries(Len(df))))
           /\ CountBefore(eps, Len(eps) + 1) = Cardinality(EntryPositions)

\* three entry rows end in two or more episodes, the last one closed by the
\* end of the input
PartitionWitness ==
    /\ pc = "return141"
    /\ Cardinality(EntryPositions) = 3
    /\ Len(ret.results_df) >= 2

\* C2: in the returned episodes, two entry rows that follow each other in
\* time order are in the same episode exactly when the later one is at most
\* 300 seconds after the earlier one.
TimeGapRule ==
    pc = "return141" =>
        LET eps == ret.results_df
            es == ret.entry_signals
            listed == AllEpisodeEntries(eps, Len(eps))
        IN /\ Len(listed) = Len(es)
           /\ \A i \in 1..Len(es) : listed[i][1] = Strftime(es[i].time.v[1])
           /\ \A i \in 1..(Len(es) - 1) :
                /\ Gap(es, i) >= 0
                /\ (EpisodeOf(eps, i) = EpisodeOf(eps, i + 1))
                      <=> (Gap(es, i) <= 300)

\* a pair exactly 300 s apart (merged) and a pair 301 s apart (split)
TimeGapWitness ==
    /\ pc = "return141"
    /\ LET es == ret.entry_signals
           eps == ret.results_df
       IN /\ \E i \in 1..(Len(es) - 1) :
                Gap(es, i) = 300 /\ EpisodeOf(eps, i) = EpisodeOf(eps, i + 1)
          /\ \E i \in 1..(Len(es) - 1) :
                Gap(es, i) = 301 /\ EpisodeOf(eps, i) # EpisodeOf(eps, i + 1)

\* amount x price summed over the rows lo+1..hi of the entry rows
RECURSIVE Notional(_, _, _)
Notional(es, lo, hi) ==
    IF hi <= lo THEN 0
    ELSE Notional(es, lo, hi - 1) + es[hi].amount.v * es[hi].price.v

\* the double t is (n / l) up to a relative error of 2^-40 (exactly inf,
\* -inf or nan when l = 0)
WithinTolerance(t, n, l) ==
    IF l = 0 THEN t = (IF n = 0 THEN NaN ELSE Inf(n < 0))
    ELSE /\ t.kind = "finite"
         /\ (t.m # <<>> => t.neg = ((n < 0) # (l < 0)))
         /\ LET a == ShiftL(BMul(t.m, Limbs(Abs(l))), t.e)
                b == ShiftL(Limbs(Abs(n)), -t.e)
                d == IF BCmp(a, b) >= 0 THEN BSub(a, b) ELSE BSub(b, a)
            IN BCmp(ShiftL(d, 40), b) <= 0

\* every returned episode's total margin is, up to floating-point rounding,
\* the sum of amount x price / leverage over the rows it holds, and its
\* entry count is their number
AdditiveMargins ==
    pc = "return141" =>
        LET eps == ret.results_df
            es == ret.entry_signals
        IN \A j \in 1..Len(eps) :
             LET lo == CountBefore(eps, j)
                 hi == lo + eps[j].entry_count
             IN /\ hi <= Len(es)
                /\ eps[j].entry_times =
                       [k \in 1..(hi - lo) |-> Strftime(es[lo + k].time.v[1])]
                /\ WithinTolerance(eps[j].total_margin,
                                   Notional(es, lo, hi), leverage)

\* the call returned for entry rows at T, T+120s, T+400s, each of amount 1
\* and price 100, with leverage 10
MarginScenario ==
    /\ pc = "return141"
    /\ leverage = 10
    /\ [k \in 1..Len(ret.entry_signals) |-> ret.entry_signals[k].time.v[1]]
          = <<0, 120, 400>>
    /\ \A k \in 1..Len(ret.entry_signals) :
          ret.entry_signals[k].amount.v = 1 /\ ret.entry_signals[k].price.v = 100

\* C3 as stated: margins are additive, and the scenario gives an episode of
\* margin 20 with two entries followed by one of margin 10 with one entry.
MarginAdditivityAsClaimed ==
    /\ AdditiveMargins
    /\ MarginScenario =>
          /\ Len(ret.results_df) = 2
          /\ ret.results_df[1].total_margin = FromInt(20)
          /\ ret.results_df[1].entry_count = 2
          /\ ret.results_df[2].total_margin = FromInt(10)
          /\ ret.results_df[2].entry_count = 1

\* C3 (amended): margins are additive, and the scenario gives one episode of
\* margin 30 with three entries, T+400s being 280 s after T+120s.
MarginAdditivity ==
    /\ AdditiveMargins
    /\ MarginScenario =>
          /\ Len(ret.results_df) = 1
          /\ ret.results_df[1].total_margin = FromInt(30)
          /\ ret.results_df[1].entry_count = 3
          /\ ret.results_df[1].start_time = 0
          /\ ret.results_df[1].end_time = 400

\* the scenario was analysed and gave its single episode
MarginWitness ==
    /\ MarginScenario
    /\ ret.results_df[1].total_margin = FromInt(30)

\* C4: in the list of episodes, every episode starts no later than it ends,
\* and every episode ends before the next one starts, whatever the order of
\* the rows in the table.
EpisodeOrdering ==
    /\ \A j \in 1..Len(results) : results[j].start_time <= results[j].end_time
    /\ \A j \in 1..(Len(results) - 1) :
          /\ results[j].start_time < results[j + 1].start_time
          /\ results[j].end_time < results[j + 1].start_time

\* a table whose rows are not in time order gave two or more episodes
OrderingWitness ==
    /\ pc = "return141"
    /\ Len(ret.results_df) >= 2
    /\ \E k \in 1..(Len(df) - 1) : df[k].time.v[1] > df[k + 1].time.v[1]

\* C5: with a leverage of zero or less the call is rejected before any row
\* is processed and gives no episodes.
InvalidLeverageRejected ==
    leverage <= 0 => /\ pc \notin {"loop", "return141"}
                     /\ results = <<>>
                     /\ (Returned => ret.none)

\* C6: when no row of the table matches the pattern, the call returns None
\* with no episode stored; when the timestamps parse it does so through the
\* empty-result return, with the "no buy signal" message and without
\* entering the except branch.
EmptyInputOutcome ==
    (Returned /\ EntryPositions = {}) =>
        /\ ret.none
        /\ ret.results_df = <<>>
        /\ results = <<>>
        /\ pc # "return141"
        /\ (~ToDatetimeRaises(df) =>
               /\ pc = "return67"
               /\ errors # <<>>
               /\ errors[Len(errors)] = "no_buy_signal"
               /\ \A k \in 1..Len(errors) : errors[k] = "no_buy_signal")

\* a table with rows, none of them an entry, was analysed
EmptyInputWitness ==
    /\ pc = "return67"
    /\ Len(df) >= 2
    /\ EntryPositions = {}
    /\ ret.none

\* C7: the value returned for "no entry rows" differs from the value
\* returned when the analysis fails.
OutcomeKindsDistinct ==
    pc = "return67" => ret # ErrorReturn

\* an unparseable timestamp anywhere, or an unreadable price or amount in an
\* entry row
BadRowPresent ==
    \/ ToDatetimeRaises(df)
    \/ \E k \in EntryPositions : ~df[k].price.num \/ ~df[k].amount.num

\* C8: with such a row in the table the loop is never entered, and the call
\* returns None through the except branch, with the error reported and no
\* episode stored.
FailFast ==
    BadRowPresent =>
        /\ pc \notin {"loop", "return141", "return67"}
        /\ results = <<>>
        /\ (Returned =>
               /\ pc = "return146"
               /\ ret.none
               /\ ret.results_df = <<>>
               /\ Len(errors) >= 2
               /\ errors[Len(errors) - 1] = "analysis_error"
               /\ errors[Len(errors)] = "error_detail")

\* the bad row stands between two valid entry rows
FailFastWitness ==
    /\ pc = "return146"
    /\ Len(df) = 3
    /\ 1 \in EntryPositions /\ 3 \in EntryPositions
    /\ df[1].price.num /\ df[1].amount.num
    /\ df[3].price.num /\ df[3].amount.num
    /\ \/ df[2].time.v = <<>>
       \/ (2 \in EntryPositions /\ ~df[2].price.num)

\* C9: all the calls made on one table with one leverage return the same
\* value, the later ones being given the table the first one converted.
Idempotence ==
    \A a, b \in 1..Len(returned) : returned[a] = returned[b]

\* two calls returned episodes
IdempotenceWitness ==
    /\ Len(returned) = 2
    /\ ~returned[2].none
    /\ Len(returned[2].results_df) >= 2
    /\ \A k \in 1..Len(df) : df[k].time.dtype = "datetime64"

IsPrefix(s, t) == Len(s) <= Len(t) /\ SubSeq(t, 1, Len(s)) = s

\* C10: a step inside the loop leaves every stored episode as it is and
\* stores at most one more, at the end of the list; it stores one only when
\* the row at hand is more than 300 s after the previous one or when the
\* input has ended; otherwise the open group only gains the row at hand.
ClosedEpisodesImmutable ==
    [][pc = "loop" =>
         /\ IsPrefix(results, results')
         /\ Len(results') <= Len(results) + 1
         /\ Len(results') = Len(results) + 1 =>
               \/ pos > Len(entry_signals)
               \/ /\ current_group_entries # <<>>
                  /\ entry_signals[pos].time.v[1]
                       - current_group_entries[Len(current_group_entries)].time
                     > 300
         /\ Len(results') = Len(results) =>
               IsPrefix(current_group_entries, current_group_entries')]_vars

\* an episode is stored while rows are still to be processed
ImmutableWitness ==
    /\ pc = "loop"
    /\ Len(results) >= 1
    /\ pos <= Len(entry_signals)

====
